---- MODULE Spec2Model ----
(***************************************************************************)
(* Model of the to_precision crate (src/src/lib.rs): the precision-checked *)
(* entry point FloatExt::to_precision, the Display implementation of       *)
(* F64Display, the rounder to_sig_figs and the exponent locator            *)
(* ten_power_leq.                                                          *)
(*                                                                         *)
(* f64 values are modelled bit-exactly as IEEE-754 binary64: a finite      *)
(* nonzero value is sign * m * 2^e with m an odd natural of at most 53     *)
(* bits, kept as a little-endian sequence of 12-bit limbs because the      *)
(* model checker's integers are 32 bits wide.  Multiplication, division,   *)
(* round and comparison are the IEEE-754 operations (round to nearest,     *)
(* ties to even, overflow to infinity, gradual underflow).  powi is the    *)
(* square-and-multiply loop the compiler runtime executes for              *)
(* f64::powi, and log10 is taken as the correctly rounded logarithm.       *)
(***************************************************************************)
EXTENDS Integers, Sequences, FiniteSets

(***************************************************************************)
(* Natural numbers of arbitrary size: little-endian sequences of 12-bit    *)
(* limbs with no leading zero limb; <<>> is zero.  The operators avoid     *)
(* deep recursion: carries are looked ahead, sums and divisions split      *)
(* their range in halves.                                                  *)
(***************************************************************************)
\* y; x is evaluated first, which keeps nested evaluations shallow
After(x, y) == IF x = x THEN y ELSE y

LimbBits == 6 * 2
Base == 2^LimbBits

Limb(a, i) == IF i >= 1 /\ i <= Len(a) THEN a[i] ELSE 0

\* a without its leading zero limbs
BNorm(a) ==
  IF \A i \in 1..Len(a) : a[i] = 0 THEN <<>>
  ELSE SubSeq(a, 1, CHOOSE i \in 1..Len(a) :
                      a[i] # 0 /\ \A j \in (i + 1)..Len(a) : a[j] = 0)

BFromInt(n) ==
  BNorm(<<n % Base, (n \div Base) % Base, n \div (Base * Base)>>)

\* for a < 2^31
BToInt(a) == Limb(a, 1) + (Base * Limb(a, 2)) + (Base * Base * Limb(a, 3))

MaxOf(i, j) == IF i >= j THEN i ELSE j
MinOf(i, j) == IF i <= j THEN i ELSE j

(***************************************************************************)
(* The operators of the arithmetic.  Each is applied through Apply, which  *)
(* selects the definition (XImpl for the operator X) by name: an operator  *)
(* used inside another is reached through the one recursive operator, so   *)
(* the expansion of nested applications stays linear in the size of the    *)
(* definitions.                                                            *)
(***************************************************************************)
RECURSIVE Apply(_, _)
BAdd(a, b) == Apply("BAdd", <<a, b>>)
BSub(a, b) == Apply("BSub", <<a, b>>)
BCmp(a, b) == Apply("BCmp", <<a, b>>)
BMul(a, b) == Apply("BMul", <<a, b>>)
BMulSmall(a, d) == Apply("BMulSmall", <<a, d>>)
BShl(a, s) == Apply("BShl", <<a, s>>)
BShr(a, s) == Apply("BShr", <<a, s>>)
BModPow2(a, s) == Apply("BModPow2", <<a, s>>)
BTrailingZeros(a) == Apply("BTrailingZeros", <<a>>)
QuotDigit(r, b) == Apply("QuotDigit", <<r, b>>)
BDivMod(a, b) == Apply("BDivMod", <<a, b>>)
FromInt(n) == Apply("FromInt", <<n>>)
RoundF64(s, M, E) == Apply("RoundF64", <<s, M, E>>)
FMul(a, b) == Apply("FMul", <<a, b>>)
FDiv(a, b) == Apply("FDiv", <<a, b>>)
FRound(a) == Apply("FRound", <<a>>)
MagCmp(a, b) == Apply("MagCmp", <<a, b>>)
FLt(a, b) == Apply("FLt", <<a, b>>)
Powi(a, b) == Apply("Powi", <<a, b>>)
Scaled10(a, n) == Apply("Scaled10", <<a, n>>)
Cmp10(a, n) == Apply("Cmp10", <<a, n>>)
TrueExp10(a) == Apply("TrueExp10", <<a>>)
Log10Floor(a) == Apply("Log10Floor", <<a>>)
DecDigits(c) == Apply("DecDigits", <<c>>)
BPow10(n) == Apply("BPow10", <<n>>)
NearestF64(s, num, den) == Apply("NearestF64", <<s, num, den>>)
FloorScaled(y, x, t) == Apply("FloorScaled", <<y, x, t>>)
DropDigits(lo, hi) == Apply("DropDigits", <<lo, hi>>)
Shortest(v) == Apply("Shortest", <<v>>)
Positional(c, t) == Apply("Positional", <<c, t>>)
ToText(v) == Apply("ToText", <<v>>)
NearestMultiple(x, p) == Apply("NearestMultiple", <<x, p>>)
RoundedExactly(x, sf) == Apply("RoundedExactly", <<x, sf>>)
AbsDiff(a, x, u) == Apply("AbsDiff", <<a, x, u>>)
NoFarther(a, b, x) == Apply("NoFarther", <<a, b, x>>)
RoundAt(x, p) == Apply("RoundAt", <<x, p>>)
OffByOne(x, log10) == Apply("OffByOne", <<x, log10>>)
BPowSmall(d, n) == Apply("BPowSmall", <<d, n>>)
DropMore(b, j) == Apply("DropMore", <<b, j>>)
PowiStep(t) == Apply("PowiStep", <<t>>)
BPowStep(t) == Apply("BPowStep", <<t>>)
BDivStep(a, b, i, lo, t) == Apply("BDivStep", <<a, b, i, lo, t>>)

BAddImpl(a, b) ==
  LET n == MaxOf(Len(a), Len(b)) + 1
      s == [i \in 1..n |-> Limb(a, i) + Limb(b, i)] \o <<>>
      \* a carry enters limb i from the nearest lower limb that is not Base - 1
      carry(i) == IF \E d \in 1..(i - 1) :
                       s[i - d] >= Base /\ \A k \in 1..(d - 1) : s[i - k] = Base - 1
                  THEN 1 ELSE 0
  IN  BNorm([i \in 1..n |-> (s[i] + carry(i)) % Base] \o <<>>)

\* a - b for a >= b
BSubImpl(a, b) ==
  LET n == Len(a)
      d == [i \in 1..n |-> a[i] - Limb(b, i)] \o <<>>
      \* a borrow enters limb i from the nearest lower limb that is not 0
      borrow(i) == IF \E j \in 1..(i - 1) :
                        d[i - j] < 0 /\ \A k \in 1..(j - 1) : d[i - k] = 0
                   THEN 1 ELSE 0
  IN  BNorm([i \in 1..n |-> (d[i] - borrow(i) + Base) % Base] \o <<>>)

\* -1, 0, 1 as a < b, a = b, a > b
BCmpImpl(a, b) ==
  IF Len(a) < Len(b) THEN -1
  ELSE IF Len(a) > Len(b) THEN 1
  ELSE IF a = b THEN 0
  ELSE LET top == CHOOSE i \in 1..Len(a) :
                    a[i] # b[i] /\ \A j \in (i + 1)..Len(a) : a[j] = b[j]
       IN  IF a[top] < b[top] THEN -1 ELSE 1

\* f[i] for i in lo..hi, 0 outside
Term(f, i, lo, hi) == IF lo <= i /\ i <= hi THEN f[i] ELSE 0

\* the sum of f over lo..hi: term by term for up to eight terms, else of the
\* sums over eight parts of the range
RECURSIVE SumRange(_, _, _)
SumRange(f, lo, hi) ==
  IF hi - lo < 8
  THEN ((Term(f, lo, lo, hi) + Term(f, lo + 1, lo, hi))
        + (Term(f, lo + 2, lo, hi) + Term(f, lo + 3, lo, hi)))
       + ((Term(f, lo + 4, lo, hi) + Term(f, lo + 5, lo, hi))
          + (Term(f, lo + 6, lo, hi) + Term(f, lo + 7, lo, hi)))
  ELSE LET w == (hi - lo) \div 8 + 1
       IN  ((SumRange(f, lo, MinOf(hi, lo + w - 1)) + SumRange(f, lo + w, MinOf(hi, lo + 2 * w - 1)))
            + (SumRange(f, lo + 2 * w, MinOf(hi, lo + 3 * w - 1))
               + SumRange(f, lo + 3 * w, MinOf(hi, lo + 4 * w - 1))))
           + ((SumRange(f, lo + 4 * w, MinOf(hi, lo + 5 * w - 1))
               + SumRange(f, lo + 5 * w, MinOf(hi, lo + 6 * w - 1)))
              + (SumRange(f, lo + 6 * w, MinOf(hi, lo + 7 * w - 1))
                 + SumRange(f, lo + 7 * w, hi)))

\* the natural with the column sums col (each below Base^3): the sum of the
\* naturals made of their low, middle and high limbs
Carried(col) ==
  LET n   == Len(col)
      lo  == BNorm([k \in 1..n |-> col[k] % Base] \o <<>>)
      mid == BNorm([k \in 1..(n + 1) |->
                IF k = 1 THEN 0 ELSE (col[k - 1] \div Base) % Base] \o <<>>)
      hi  == BNorm([k \in 1..(n + 2) |->
                IF k <= 2 THEN 0 ELSE col[k - 2] \div (Base * Base)] \o <<>>)
  IN  After(<<col, lo, mid, hi>>, BAdd(BAdd(lo, mid), hi))

\* a * b: column sums (below 2^31 for operands of up to 127 limbs), then carries
BMulImpl(a, b) ==
  IF a = <<>> \/ b = <<>> THEN <<>>
  ELSE Carried([k \in 1..(Len(a) + Len(b)) |->
                  SumRange([i \in 1..Len(a) |-> a[i] * Limb(b, k + 1 - i)],
                           MaxOf(1, k + 1 - Len(b)), MinOf(Len(a), k))] \o <<>>)

\* a * d for 0 <= d <= Base
BMulSmallImpl(a, d) ==
  BAdd(BNorm([i \in 1..Len(a) |-> (a[i] * d) % Base] \o <<>>),
       BNorm([i \in 1..(Len(a) + 1) |->
                IF i = 1 THEN 0 ELSE (a[i - 1] * d) \div Base] \o <<>>))

\* a * 2^s
BShlImpl(a, s) ==
  LET q == s \div LimbBits
      r == s % LimbBits
  IN  BNorm([i \in 1..(Len(a) + q + 1) |->
               ((Limb(a, i - q) * 2^r) % Base) + ((Limb(a, i - q - 1) * 2^r) \div Base)]
            \o <<>>)

\* floor(a / 2^s)
BShrImpl(a, s) ==
  LET q == s \div LimbBits
      r == s % LimbBits
  IN  IF q >= Len(a) THEN <<>>
      ELSE BNorm([i \in 1..(Len(a) - q) |->
                    (Limb(a, i + q) \div 2^r)
                    + ((Limb(a, i + q + 1) % 2^r) * 2^(LimbBits - r))] \o <<>>)

\* a mod 2^s
BModPow2Impl(a, s) ==
  LET q == s \div LimbBits
      r == s % LimbBits
  IN  IF q >= Len(a) THEN a
      ELSE BNorm([i \in 1..(q + 1) |-> IF i <= q THEN a[i] ELSE a[i] % (2^r)] \o <<>>)

\* number of bits of a limb
IntBitLen(n) == CHOOSE k \in 0..LimbBits : n < 2^k /\ (k = 0 \/ n >= 2^(k - 1))

BBitLen(a) ==
  IF a = <<>> THEN 0 ELSE LimbBits * (Len(a) - 1) + IntBitLen(a[Len(a)])

BIsOdd(a) == a # <<>> /\ a[1] % 2 = 1

\* bit i (0 = least significant) of a
BBit(a, i) == (Limb(a, i \div LimbBits + 1) \div 2^(i % LimbBits)) % 2

\* number of trailing zero bits of a > 0
BTrailingZerosImpl(a) ==
  LET i == CHOOSE j \in 1..Len(a) : a[j] # 0 /\ \A k \in 1..(j - 1) : a[k] = 0
  IN  LimbBits * (i - 1)
      + (CHOOSE t \in 0..LimbBits : (a[i] % (2^t)) = 0 /\ (a[i] % (2^(t + 1))) # 0)

\* floor(r / b) for b > 0 and r < b * Base: estimated from the leading 15 bits
\* of b and the bits of r above the same position, which is off by one at most
QuotDigitImpl(r, b) ==
  LET sh  == MaxOf(BBitLen(b) - 15, 0)
      est == BToInt(BShr(r, sh)) \div BToInt(BShr(b, sh))
  IN  After(est,
        CHOOSE d \in (MaxOf(est - 1, 0))..(MinOf(est + 1, Base - 1)) :
          /\ BCmp(BMulSmall(b, d), r) <= 0
          /\ BCmp(BMulSmall(b, d + 1), r) > 0)

\* one step of the long division of a by b > 0, at limb i of a, if i is in the
\* range (i >= lo): t = <<quotient limbs so far, remainder>>
BDivStepImpl(a, b, i, lo, t) ==
  IF i < lo THEN t
  ELSE LET cur == BNorm(<<a[i]>> \o t[2])
           d   == QuotDigit(cur, b)
       IN  After(<<cur, d>>, <<<<d>> \o t[1], BSub(cur, BMulSmall(b, d))>>)

\* the long division at limbs hi down to lo of a, from t on: step by step for
\* up to eight limbs, else over eight parts of the range, the upper first
RECURSIVE BDivModAt(_, _, _, _, _)
BDivModAt(a, b, lo, hi, t) ==
  IF hi - lo < 8
  THEN LET s1 == BDivStep(a, b, hi, lo, t)
           s2 == BDivStep(a, b, hi - 1, lo, s1)
           s3 == BDivStep(a, b, hi - 2, lo, s2)
           s4 == BDivStep(a, b, hi - 3, lo, s3)
           s5 == BDivStep(a, b, hi - 4, lo, s4)
           s6 == BDivStep(a, b, hi - 5, lo, s5)
           s7 == BDivStep(a, b, hi - 6, lo, s6)
       IN  After(<<s1, s2, s3, s4, s5, s6, s7>>, BDivStep(a, b, hi - 7, lo, s7))
  ELSE LET w  == (hi - lo) \div 8 + 1
           p1 == BDivModAt(a, b, MaxOf(lo, hi - w + 1), hi, t)
           p2 == BDivModAt(a, b, MaxOf(lo, hi - 2 * w + 1), hi - w, p1)
           p3 == BDivModAt(a, b, MaxOf(lo, hi - 3 * w + 1), hi - 2 * w, p2)
           p4 == BDivModAt(a, b, MaxOf(lo, hi - 4 * w + 1), hi - 3 * w, p3)
           p5 == BDivModAt(a, b, MaxOf(lo, hi - 5 * w + 1), hi - 4 * w, p4)
           p6 == BDivModAt(a, b, MaxOf(lo, hi - 6 * w + 1), hi - 5 * w, p5)
           p7 == BDivModAt(a, b, MaxOf(lo, hi - 7 * w + 1), hi - 6 * w, p6)
       IN  After(<<p1, p2, p3, p4, p5, p6, p7>>, BDivModAt(a, b, lo, hi - 7 * w, p7))

\* qr = <<quotient limbs, remainder>> with the quotient as a natural
Normalised(qr) == After(qr, <<BNorm(qr[1]), qr[2]>>)

\* <<floor(a / b), a mod b>> for b > 0
BDivModImpl(a, b) == Normalised(BDivModAt(a, b, 1, Len(a), <<<<>>, <<>>>>))

\* one step of raising to a power by squaring, on t = <<sq, n, acc>>: acc takes
\* the factor sq if n is odd, n is halved, sq is squared if n is not used up
BPowStepImpl(t) ==
  <<IF t[2] \div 2 = 0 THEN t[1] ELSE BMul(t[1], t[1]),
    t[2] \div 2,
    IF t[2] % 2 = 1 THEN BMul(t[3], t[1]) ELSE t[3]>>

\* d^n for 0 < d < Base and n < 2^10: ten steps, taken one after the other
BPowSmallImpl(d, n) ==
  LET t1  == BPowStep(<<<<d>>, n, <<1>>>>)
      t2  == BPowStep(t1)
      t3  == BPowStep(t2)
      t4  == BPowStep(t3)
      t5  == BPowStep(t4)
      t6  == BPowStep(t5)
      t7  == BPowStep(t6)
      t8  == BPowStep(t7)
      t9  == BPowStep(t8)
      t10 == BPowStep(t9)
  IN  After(<<t1, t2, t3, t4, t5, t6, t7, t8, t9>>, t10[3])

(***************************************************************************)
(* f64: IEEE-754 binary64.  k is the class; s is the sign bit; a finite    *)
(* nonzero value is (-1)^s * m * 2^e with m odd, so that equal values are  *)
(* equal records.                                                          *)
(***************************************************************************)
MantBits == 53
MinExp == -1074
MaxExp == 1024

NaN == [k |-> "nan", s |-> 0, m |-> <<>>, e |-> 0]
Inf(s) == [k |-> "inf", s |-> s, m |-> <<>>, e |-> 0]
Zero(s) == [k |-> "zero", s |-> s, m |-> <<>>, e |-> 0]
Fin(s, m, e) == [k |-> "fin", s |-> s, m |-> m, e |-> e]

\* the f64 that a small integer literal denotes
FromIntImpl(n) ==
  IF n = 0 THEN Zero(0)
  ELSE LET a  == BFromInt(IF n < 0 THEN -n ELSE n)
           tz == BTrailingZeros(a)
       IN  Fin(IF n < 0 THEN 1 ELSE 0, BShr(a, tz), tz)

\* the f64 (-1)^s * r * 2^E for r of at most 53 bits: zero, an overflow to
\* infinity, or r with its trailing zeros moved into the exponent
Packed(s, r, E) ==
  IF r = <<>> THEN Zero(s)
  ELSE IF BBitLen(r) + E > MaxExp THEN Inf(s)
  ELSE LET tz == BTrailingZeros(r) IN After(tz, Fin(s, BShr(r, tz), E + tz))

\* 1 if the bits of M below bit sh are more than half of 2^sh, 0 if they are
\* half of it, -1 if less
TailCmp(M, sh) ==
  IF sh = 0 THEN -1 ELSE BCmp(BModPow2(M, sh), BShl(<<1>>, sh - 1))

\* q + 1 if the tail c is above a half, or is a half and q is odd; else q
TiesToEven(q, c) ==
  IF c > 0 \/ (c = 0 /\ BIsOdd(q)) THEN BAdd(q, <<1>>) ELSE q

\* (-1)^s * M * 2^E rounded to the nearest f64, ties to even: M loses its low
\* sh bits, rounded to the nearest
RoundF64Impl(s, M, E) ==
  LET sh == MaxOf(MaxOf(BBitLen(M) - MantBits, MinExp - E), 0)
      q  == BShr(M, sh)
      c  == TailCmp(M, sh)
      r  == TiesToEven(q, c)
  IN  IF M = <<>> THEN Zero(s)
      ELSE After(<<q, c, r>>, Packed(s, r, E + sh))

XorSign(a, b) == (a.s + b.s) % 2

\* a * b
FMulImpl(a, b) ==
  IF a.k = "nan" \/ b.k = "nan" THEN NaN
  ELSE IF a.k = "inf" \/ b.k = "inf"
       THEN (IF a.k = "zero" \/ b.k = "zero" THEN NaN ELSE Inf(XorSign(a, b)))
  ELSE IF a.k = "zero" \/ b.k = "zero" THEN Zero(XorSign(a, b))
  ELSE RoundF64(XorSign(a, b), BMul(a.m, b.m), a.e + b.e)

\* a / b: the quotient of the significands to 57 bits or more, with a sticky
\* last bit for a nonzero remainder, then rounded once
FDivImpl(a, b) ==
  IF a.k = "nan" \/ b.k = "nan" THEN NaN
  ELSE IF a.k = "inf" THEN (IF b.k = "inf" THEN NaN ELSE Inf(XorSign(a, b)))
  ELSE IF b.k = "inf" THEN Zero(XorSign(a, b))
  ELSE IF b.k = "zero" THEN (IF a.k = "zero" THEN NaN ELSE Inf(XorSign(a, b)))
  ELSE IF a.k = "zero" THEN Zero(XorSign(a, b))
  ELSE LET sh == MaxOf(MantBits + 4 + BBitLen(b.m) - BBitLen(a.m), 0)
           qr == BDivMod(BShl(a.m, sh), b.m)
           M  == IF qr[2] = <<>> THEN BShl(qr[1], 1)
                 ELSE BAdd(BShl(qr[1], 1), <<1>>)
       IN  After(<<qr, M>>, RoundF64(XorSign(a, b), M, a.e - b.e - sh - 1))

\* f64::round: to the nearest integer, halves away from zero
FRoundImpl(a) ==
  IF a.k # "fin" \/ a.e >= 0 THEN a
  ELSE Packed(a.s,
              IF BBit(a.m, -a.e - 1) = 1 THEN BAdd(BShr(a.m, -a.e), <<1>>)
              ELSE BShr(a.m, -a.e),
              0)

\* f64::abs and unary minus
FAbs(a) == [a EXCEPT !.s = 0]
FNeg(a) == IF a.k = "nan" THEN a ELSE [a EXCEPT !.s = 1 - a.s]

IsNan(a) == a.k = "nan"
IsFinite(a) == a.k \in {"fin", "zero"}

\* -1, 0, 1 as |a| < |b|, |a| = |b|, |a| > |b|, for finite nonzero a and b
MagCmpImpl(a, b) ==
  IF BBitLen(a.m) + a.e # BBitLen(b.m) + b.e
  THEN (IF BBitLen(a.m) + a.e < BBitLen(b.m) + b.e THEN -1 ELSE 1)
  ELSE IF a.e >= b.e THEN BCmp(BShl(a.m, a.e - b.e), b.m)
  ELSE BCmp(a.m, BShl(b.m, b.e - a.e))

\* -1, 0, 1: the sign of a value that is not NaN
Sgn(a) == IF a.k = "zero" THEN 0 ELSE IF a.s = 1 THEN -1 ELSE 1

\* a < b
FLtImpl(a, b) ==
  IF a.k = "nan" \/ b.k = "nan" THEN FALSE
  ELSE IF Sgn(a) # Sgn(b) THEN Sgn(a) < Sgn(b)
  ELSE IF Sgn(a) = 0 THEN FALSE
  ELSE LET c == IF a.k = "inf" THEN (IF b.k = "inf" THEN 0 ELSE 1)
                ELSE IF b.k = "inf" THEN -1
                ELSE MagCmp(a, b)
       IN  IF Sgn(a) = 1 THEN c < 0 ELSE c > 0

\* a == b
FEq(a, b) ==
  IF a.k = "nan" \/ b.k = "nan" THEN FALSE
  ELSE IF a.k = "zero" /\ b.k = "zero" THEN TRUE
  ELSE a = b

\* f64::powi as the compiler runtime computes it: r and a start at 1 and the
\* base; each step, on t = <<a, b, r>>, multiplies r by a if the low bit of
\* the exponent is set, halves the exponent and, unless that ends the loop,
\* squares a
PowiStepImpl(t) ==
  <<IF t[2] \div 2 = 0 THEN t[1] ELSE FMul(t[1], t[1]),
    t[2] \div 2,
    IF t[2] % 2 = 1 THEN FMul(t[3], t[1]) ELSE t[3]>>

\* r after the loop, for 0 <= b < 2^10: ten steps, taken one after the other
PowiLoop(a, b) ==
  LET t1  == PowiStep(<<a, b, FromInt(1)>>)
      t2  == PowiStep(t1)
      t3  == PowiStep(t2)
      t4  == PowiStep(t3)
      t5  == PowiStep(t4)
      t6  == PowiStep(t5)
      t7  == PowiStep(t6)
      t8  == PowiStep(t7)
      t9  == PowiStep(t8)
      t10 == PowiStep(t9)
  IN  After(<<t1, t2, t3, t4, t5, t6, t7, t8, t9>>, t10[3])

PowiImpl(a, b) ==
  IF b < 0 THEN FDiv(FromInt(1), PowiLoop(a, -b)) ELSE PowiLoop(a, b)

(***************************************************************************)
(* Exact decimal order of magnitude, and f64::log10.                       *)
(***************************************************************************)
\* |a| and 10^n brought to a common scale: <<|a| * c, 10^n * c>> for some c > 0,
\* both naturals (a finite and nonzero)
Scaled10Impl(a, n) ==
  LET p5 == BPowSmall(5, IF n >= 0 THEN n ELSE -n)
  IN  After(p5,
        <<BShl(IF n < 0 THEN BMul(a.m, p5) ELSE a.m, MaxOf(a.e - n, 0)),
          BShl(IF n > 0 THEN p5 ELSE <<1>>, MaxOf(n - a.e, 0))>>)

\* -1, 0, 1 as |a| < 10^n, |a| = 10^n, |a| > 10^n, exactly
Cmp10Impl(a, n) == LET sc == Scaled10(a, n) IN After(sc, BCmp(sc[1], sc[2]))

\* the integer e with 10^e <= |a| < 10^(e+1), exactly; the candidates come from
\* the binary exponent (log10(2) = 0.30103)
TrueExp10Impl(a) ==
  LET est == ((BBitLen(a.m) + a.e - 1) * 30103) \div 100000
  IN  IF Cmp10(a, est) < 0 THEN est - 1
      ELSE IF Cmp10(a, est + 1) >= 0 THEN est + 1
      ELSE est

\* x.log10().floor() as i32 for finite nonzero x, log10 being the correctly
\* rounded logarithm.  It is the exact order of magnitude e, except that the
\* logarithm of an x just below 10^n (n = e + 1, n # 0) rounds up to n itself:
\* that happens when (10^n - |x|) / 10^n < ln(10) * h, h being half the spacing
\* of the f64 values next to n on the side of log10(x) (ln(10) = 2.302585).
Log10FloorImpl(a) ==
  LET e  == TrueExp10(a)
      n  == e + 1
      b  == IntBitLen(IF n > 0 THEN n - 1 ELSE -n) - 1
      sc == After(e, Scaled10(a, n))
      gap == After(sc, BShl(BSub(sc[2], sc[1]), MantBits - b))
  IN  After(gap,
        IF n # 0 /\ BCmp(BMul(gap, BFromInt(1000000)), BMul(sc[2], BFromInt(2302585))) < 0
        THEN n
        ELSE e)

(***************************************************************************)
(* Text.  A text is a sequence of characters; the sign U+221E, which has   *)
(* no ASCII form, is the one-element text InfinitySign.                    *)
(***************************************************************************)
InfinitySign == <<"U+221E">>
Minus == <<"-">>
DigitChars == <<"0", "1", "2", "3", "4", "5", "6", "7", "8", "9">>

\* the number of decimal digits of a natural (0 for zero): it is within one
\* of the estimate from the bit length (log10(2) = 0.30103)
DigitCount(c) ==
  IF c = <<>> THEN 0
  ELSE CHOOSE n \in ((BBitLen(c) * 30103) \div 100000)..((BBitLen(c) * 30103) \div 100000 + 1) :
         /\ BCmp(c, BPow10(n)) < 0
         /\ n = 0 \/ BCmp(c, BPow10(n - 1)) >= 0

\* the n decimal digits of an integer below 10^n, n <= 9
IntDigits(c, n) == [i \in 1..n |-> DigitChars[((c \div 10^(n - i)) % 10) + 1]] \o <<>>

\* the n decimal digits of qr[1] * 10^9 + qr[2]
SplitDigits(qr, n) ==
  After(qr, IntDigits(BToInt(qr[1]), n - 9) \o IntDigits(BToInt(qr[2]), 9))

\* the n decimal digits of a natural below 10^n, n <= 18
DigitsOf(c, n) ==
  After(n, IF n <= 9 THEN IntDigits(BToInt(c), n)
           ELSE SplitDigits(BDivMod(c, BPow10(9)), n))

\* the decimal digits of a natural below 10^18, most significant first (none
\* for zero)
DecDigitsImpl(c) == DigitsOf(c, DigitCount(c))

BPow10Impl(n) == BShl(BPowSmall(5, n), n)

\* the f64 nearest to (-1)^s * num / den (ties to even), for num, den > 0
NearestF64Impl(s, num, den) ==
  LET sh == MaxOf(MantBits + 4 + BBitLen(den) - BBitLen(num), 0)
      qr == After(sh, BDivMod(BShl(num, sh), den))
      M  == IF qr[2] = <<>> THEN BShl(qr[1], 1) ELSE BAdd(BShl(qr[1], 1), <<1>>)
  IN  After(<<qr, M>>, RoundF64(s, M, -sh - 1))

\* floor(y * 2^x * 10^t) and whether the floor is the value itself
FloorScaledImpl(y, x, t) ==
  LET p10 == BPow10(IF t >= 0 THEN t ELSE -t)
      top == IF t >= 0 THEN BMul(y, p10) ELSE y
      num == BShl(top, MaxOf(x, 0))
  IN  After(<<p10, top, num>>,
        IF t >= 0
        THEN <<BShr(num, MaxOf(-x, 0)), BModPow2(num, MaxOf(-x, 0)) = <<>>>>
        ELSE LET qr == BDivMod(num, BShl(p10, MaxOf(-x, 0)))
             IN  <<qr[1], qr[2] = <<>>>>)

\* the quotient of qr = <<quotient, remainder>> rounded up
Ceiling(qr) == IF qr[2] = <<>> THEN qr[1] ELSE BAdd(qr[1], <<1>>)

\* the number of significant decimal digits that tell any two f64 apart
MaxDigits == 17

\* b = <<k, lo, hi>>: the bounds scaled down by 10^j more, <<k + j,
\* ceil(lo / 10^j), floor(hi / 10^j)>>, if an integer remains between them,
\* else b
DropMoreImpl(b, j) ==
  LET p == BPow10(j)
      c == Ceiling(BDivMod(b[2], p))
      f == BDivMod(b[3], p)[1]
  IN  After(<<b, p, c, f>>, IF BCmp(c, f) <= 0 THEN <<b[1] + j, c, f>> ELSE b)

\* The largest k for which lo..hi (of MaxDigits digits), scaled down by 10^k,
\* still holds an integer, with the scaled bounds:
\* <<k, ceil(lo / 10^k), floor(hi / 10^k)>>.  If an integer remains for k, one
\* remains for less than k, so k is found bit by bit.
DropDigitsImpl(lo, hi) ==
  LET b16 == DropMore(<<0, lo, hi>>, 16)
      b8  == DropMore(b16, 8)
      b4  == DropMore(b8, 4)
      b2  == DropMore(b4, 2)
  IN  After(<<b16, b8, b4, b2>>, DropMore(b2, 1))

\* the greatest integer of the interval that ends at the scaled midpoint up:
\* the midpoint itself if it is an integer and belongs to the interval
UpperBound(up, even) ==
  After(up, IF up[2] /\ ~even THEN BSub(up[1], <<1>>) ELSE up[1])

\* the least integer of the interval that starts at the scaled midpoint dn
LowerBound(dn, even) ==
  After(dn, IF dn[2] /\ even THEN dn[1] ELSE BAdd(dn[1], <<1>>))

\* mid clamped to lo..hi
Clamp(mid, lo, hi) ==
  After(mid, IF BCmp(mid, lo) < 0 THEN lo ELSE IF BCmp(mid, hi) > 0 THEN hi ELSE mid)

\* round(v2 / (2 * 10^k)), halves up
HalfScaled(v2, k) ==
  LET p == BPow10(k)
      n == BAdd(v2, p)
      d == BShl(p, 1)
  IN  After(<<p, n, d>>, BDivMod(n, d)[1])

\* lo..hi are the bounds at T decimals, v2 is twice the value at T decimals:
\* digits are dropped while a decimal remains between the bounds, and of the
\* decimals that remain the one nearest to the value is taken
Picked(lo, hi, v2, T) ==
  LET kb   == DropDigits(lo, hi)
      half == HalfScaled(v2, kb[1])
  IN  After(<<kb, half>>, <<Clamp(half, kb[2], kb[3]), T - kb[1]>>)

\* v = M4 * 2^X with M4 four times the significand of 53 bits; the bounds are
\* taken at T decimals
ShortestFrom(M4, X, T, even, pow2) ==
  LET below == BSub(M4, IF pow2 THEN <<1>> ELSE <<2>>)
      above == BAdd(M4, <<2>>)
      dn    == FloorScaled(below, X, T)
      up    == FloorScaled(above, X, T)
      lo    == LowerBound(dn, even)
      hi    == UpperBound(up, even)
      v2    == FloorScaled(M4, X + 1, T)
  IN  After(<<M4, below, above, dn, up, lo, hi, v2>>, Picked(lo, hi, v2[1], T))

\* z is the number of bits the significand of v is short of 53
ShortestAt(v, z, T) ==
  After(T, ShortestFrom(BShl(v.m, z + 2), v.e - z - 2, T,
                        z > 0, v.m = <<1>> /\ v.e - z > MinExp))

\* The shortest decimal that reads back as v (finite, nonzero, sign ignored),
\* and the one nearest to v among the shortest: <<c, t>> for c * 10^(-t).
\* With v = M * 2^X (M of 53 bits, or less for a subnormal), the decimals that
\* read back as v lie between the midpoints to its two neighbours, (4M - 2)
\* and (4M + 2) in units of 2^(X-2) ((4M - 1) below a power of two), the
\* midpoints included when M is even.  The bounds are taken at 17 digits.
ShortestImpl(v) ==
  ShortestAt(v, MinOf(MantBits - BBitLen(v.m), v.e - MinExp), MaxDigits - 1 - TrueExp10(v))

\* c * 10^(-t) written without an exponent: the digits of c, a point before
\* the last t of them, zeros added as needed
PositionalImpl(c, t) ==
  LET d == DecDigits(c)
  IN  After(d,
        IF t <= 0 THEN d \o [i \in 1..(-t) |-> "0"]
        ELSE IF t < Len(d) THEN SubSeq(d, 1, Len(d) - t) \o <<".">> \o SubSeq(d, Len(d) - t + 1, Len(d))
        ELSE <<"0", ".">> \o [i \in 1..(t - Len(d)) |-> "0"] \o d)

\* what {} prints for an f64 (its Display): the shortest decimal that reads
\* back as the value, without an exponent; "-" for a set sign bit, also of a
\* zero; "inf"; "NaN" without a sign
ToTextImpl(v) ==
  IF v.k = "nan" THEN <<"N", "a", "N">>
  ELSE (IF v.s = 1 THEN Minus ELSE <<>>) \o
       (IF v.k = "inf" THEN <<"i", "n", "f">>
        ELSE IF v.k = "zero" THEN <<"0">>
        ELSE LET ct == Shortest(v) IN After(ct, Positional(ct[1], ct[2])))

(***************************************************************************)
(* Exact decimal arithmetic the properties are stated in                   *)
(***************************************************************************)

\* N, for the multiple N * 10^p nearest to |x|, a tie taken away from zero:
\* N = floor((floor(2 * |x| / 10^p) + 1) / 2)
NearestMultipleImpl(x, p) ==
  LET twice == FloorScaled(x.m, x.e + 1, -p)
  IN  After(twice, BShr(BAdd(twice[1], <<1>>), 1))

\* the f64 nearest to x rounded exactly to sf significant decimal digits
RoundedExactlyImpl(x, sf) ==
  LET p == TrueExp10(x) - sf + 1
      N == After(p, NearestMultiple(x, p))
  IN  After(N, IF p >= 0 THEN NearestF64(x.s, BMul(N, BPow10(p)), <<1>>)
               ELSE NearestF64(x.s, N, BPow10(-p)))

\* |a| in units of 2^u, for a zero or finite
ScaledMag(a, u) == IF a.k = "zero" THEN <<>> ELSE BShl(a.m, a.e - u)

\* |a - x| in units of 2^u, for a zero or finite and x finite
AbsDiffImpl(a, x, u) ==
  LET A == ScaledMag(a, u)
      X == ScaledMag(x, u)
  IN  After(A, After(X,
        IF a.k = "fin" /\ a.s # x.s THEN BAdd(A, X)
        ELSE IF BCmp(A, X) >= 0 THEN BSub(A, X)
        ELSE BSub(X, A)))

\* |a - x| <= |b - x| holds in f64 terms: a and b are numbers, and a is no
\* farther from the finite x than b is
NoFartherImpl(a, b, x) ==
  /\ IsFinite(a)
  /\ IsFinite(b)
  /\ LET u == MinOf(x.e, MinOf(IF a.k = "fin" THEN a.e ELSE x.e,
                               IF b.k = "fin" THEN b.e ELSE x.e))
     IN  BCmp(AbsDiff(a, x, u), AbsDiff(b, x, u)) <= 0


(***************************************************************************)
(* src/src/lib.rs                                                          *)
(***************************************************************************)
MAX_FRACTION_DIGITS == 21

Ten == Fin(0, <<5>>, 1)

\* the values the callers pass: the special values and the finite values of
\* the crate's tests, and finite values at the edges of the arithmetic
One == Fin(0, <<1>>, 0)                                      \* 1.0
MinusOne == Fin(1, <<1>>, 0)                                 \* -1.0
Tenth == Fin(0, <<3277, 3276, 3276, 3276, 12>>, -55)         \* 0.1
P99999999999 == Fin(0, <<1029, 4093, 4095, 4095, 3>>, -50)   \* 0.99999999999
Hundred == Fin(0, <<25>>, 2)                                 \* 100.0
X1234 == Fin(0, <<617>>, 1)                                  \* 1234.0
MinusX1234 == Fin(1, <<617>>, 1)                             \* -1234.0
X9999 == Fin(0, <<1807, 2>>, 0)                              \* 9999.0
P1234 == Fin(0, <<3827, 1336, 1140, 2418, 31>>, -56)         \* 0.1234
P999 == Fin(0, <<1835, 360, 3801, 3964, 31>>, -53)           \* 0.999
P9999 == Fin(0, <<911, 1861, 1828, 4089, 15>>, -52)          \* 0.9999
P7000000000000002 == Fin(0, <<3277, 3276, 3276, 3276, 2>>, -50) \* 0.7000000000000002
P6Bits == Fin(0, <<3277, 3276, 3276, 3276, 4>>, -51)         \* f64::from_bits(4603579539098121012)
P15 == Fin(0, <<819, 819, 819, 819, 19>>, -55)               \* 0.15
X4265P029 == Fin(0, <<459, 1114, 950, 1352, 8>>, -39)        \* 4265.029
X64511 == Fin(0, <<3071, 15>>, 0)                            \* 64511.0
Below1000 == Fin(0, <<4095, 4095, 4095, 1023, 31>>, -43)     \* 999.9999999999999
Tiny == Fin(0, <<857, 3983, 4034, 1761, 21>>, -1049)         \* 1e-300

FiniteInputs ==
  { One, MinusOne, Tenth, P99999999999, Hundred, X1234, MinusX1234, X9999,
    P1234, P999, P9999, P7000000000000002, P6Bits,
    P15, X4265P029, X64511, Below1000, Tiny }

Inputs == {NaN, Zero(0), Zero(1), Inf(0), Inf(1)} \cup FiniteInputs

\* the precisions a caller tries: p is a u8
MaxTriedPrecision == 23
Precisions == 0..MaxTriedPrecision

\* the significant-figure counts of the direct calls of to_sig_figs
SigFigs == {1, 3, 4, 9, 16, 21}

NoPanic == ""
PrecisionPanic == "precision must satisfy 1 <= p ({}) <= {}"
ZeroPanic == "power of 10 only makes sense on nonzero numbers"

NoHandle == [some |-> FALSE, x |-> NaN, p |-> 0]
F64Display(x, p) == [some |-> TRUE, x |-> x, p |-> p]

\* what a call returned: nothing, an f64 or an i32
NoRet == [kind |-> "none", f |-> NaN, i |-> 0]
RetF64(v) == [kind |-> "f64", f |-> v, i |-> 0]
RetI32(n) == [kind |-> "i32", f |-> NaN, i |-> n]

\* a line printed to standard output: the println! template and its arguments
PrintedCall(x, sf) == [text |-> "to_sig_figs({}, {})", x |-> x, n |-> sf]
PrintedExp(e) == [text |-> "e = {}", x |-> NaN, n |-> e]

\* a call of one of the private functions, with the f64 it was given
Called(fn, x) == [fn |-> fn, x |-> x]

\* the effects of running a function: the panic that ended it (or none), what
\* it returned, the text written to the sink, the lines printed and the calls
Ran(panic, ret, out, stdout, calls) ==
  After(ret,
    [panic |-> panic, ret |-> ret, out |-> out, stdout |-> stdout, calls |-> calls])

\* a precision check that lost its lower bound
PrecisionUpperOnly(p) == p <= MAX_FRACTION_DIGITS

\* assert!(1 <= p && p <= MAX_FRACTION_DIGITS, ..)
PrecisionOk(p) == 1 <= p /\ p <= MAX_FRACTION_DIGITS

\* fn to_precision(self, p: u8) -> F64Display
to_precision(x, p) ==
  IF PrecisionOk(p)
  THEN [panic |-> NoPanic, handle |-> F64Display(x, p)]
  ELSE [panic |-> PrecisionPanic, handle |-> NoHandle]

\* if 10.0f64.powi(log10 + 1) < x { log10 + 1 } else { log10 }
OffByOneImpl(x, log10) ==
  After(log10, IF FLt(Powi(Ten, log10 + 1), x) THEN log10 + 1 ELSE log10)

\* the value ten_power_leq returns for a finite x != 0
ten_power_leq(x) == OffByOne(FAbs(x), Log10Floor(FAbs(x)))

\* fn ten_power_leq(x: f64) -> i32, for the finite x its callers pass
ten_power_leq_run(x) ==
  IF FEq(x, Zero(0))
  THEN Ran(ZeroPanic, NoRet, <<>>, <<>>, <<Called("ten_power_leq", x)>>)
  ELSE Ran(NoPanic, RetI32(ten_power_leq(x)), <<>>, <<>>,
           <<Called("ten_power_leq", x)>>)

\* (x * tens).round() / tens
ScaledUp(x, tens) == After(tens, FDiv(FRound(FMul(x, tens)), tens))

\* (x / tens).round() * tens
ScaledDown(x, tens) == After(tens, FMul(FRound(FDiv(x, tens)), tens))

\* the rounding of x at the decimal position p (the if/else of to_sig_figs)
RoundAtImpl(x, p) ==
  IF p < 0 THEN ScaledUp(x, Powi(Ten, -p)) ELSE ScaledDown(x, Powi(Ten, p))

\* the value to_sig_figs returns for a finite x != 0
to_sig_figs(x, sf) == RoundAt(x, ten_power_leq(x) - sf + 1)

\* to_sig_figs from its call of ten_power_leq on, tp being what that call did
to_sig_figs_from(x, sf, tp) ==
  After(tp,
    IF tp.panic # NoPanic
    THEN Ran(tp.panic, NoRet, <<>>, <<PrintedCall(x, sf)>>,
             <<Called("to_sig_figs", x)>> \o tp.calls)
    ELSE Ran(NoPanic, RetF64(RoundAt(x, tp.ret.i - sf + 1)), <<>>,
             <<PrintedCall(x, sf), PrintedExp(tp.ret.i)>>,
             <<Called("to_sig_figs", x)>> \o tp.calls))

\* fn to_sig_figs(x: f64, sf: i32) -> f64, for the finite x its callers pass
to_sig_figs_run(x, sf) == to_sig_figs_from(x, sf, ten_power_leq_run(x))

\* a zero test on the bits of x, which only +0.0 passes
IsPositiveZeroBits(x) == x = Zero(0)

\* if x == 0.
IsZero(x) == FEq(x, Zero(0))

\* a negative branch that writes nothing
NoSignText(x) == <<>>

\* if x < 0. { x = -x; write!(f, "-")?; }: the text written
SignText(x) == IF FLt(x, Zero(0)) THEN Minus ELSE <<>>

\* if x < 0. { x = -x; .. }: the x the infinity check sees
Magnitude(x) == IF FLt(x, Zero(0)) THEN FNeg(x) ELSE x

\* write!(f, "{}", to_sig_figs(self.0, self.1)) after the sign was written,
\* r being what the call of to_sig_figs did
Written(sign, r) ==
  After(r, Ran(r.panic, r.ret,
               sign \o (IF r.panic = NoPanic THEN ToText(r.ret.f) ELSE <<>>),
               r.stdout, r.calls))

\* impl fmt::Display for F64Display: fn fmt
fmt(self) ==
  IF IsNan(self.x) THEN Ran(NoPanic, NoRet, <<"N", "a", "N">>, <<>>, <<>>)
  ELSE IF IsZero(self.x) THEN Ran(NoPanic, NoRet, <<"0">>, <<>>, <<>>)
  ELSE IF ~IsFinite(Magnitude(self.x))
  THEN Ran(NoPanic, NoRet, SignText(self.x) \o InfinitySign, <<>>, <<>>)
  ELSE Written(SignText(self.x), to_sig_figs_run(self.x, self.p))

NoPrev == [kind |-> "none", x |-> NaN, n |-> 0, ret |-> NaN]

\* the operator named f applied to the arguments v, which are evaluated first
Apply(f, v) ==
  IF v = <<>> THEN v     \* no operator is without arguments
  ELSE
    CASE f = "BAdd" -> BAddImpl(v[1], v[2])
      [] f = "BSub" -> BSubImpl(v[1], v[2])
      [] f = "BCmp" -> BCmpImpl(v[1], v[2])
      [] f = "BMul" -> BMulImpl(v[1], v[2])
      [] f = "BMulSmall" -> BMulSmallImpl(v[1], v[2])
      [] f = "BShl" -> BShlImpl(v[1], v[2])
      [] f = "BShr" -> BShrImpl(v[1], v[2])
      [] f = "BModPow2" -> BModPow2Impl(v[1], v[2])
      [] f = "BTrailingZeros" -> BTrailingZerosImpl(v[1])
      [] f = "QuotDigit" -> QuotDigitImpl(v[1], v[2])
      [] f = "BDivMod" -> BDivModImpl(v[1], v[2])
      [] f = "FromInt" -> FromIntImpl(v[1])
      [] f = "RoundF64" -> RoundF64Impl(v[1], v[2], v[3])
      [] f = "FMul" -> FMulImpl(v[1], v[2])
      [] f = "FDiv" -> FDivImpl(v[1], v[2])
      [] f = "FRound" -> FRoundImpl(v[1])
      [] f = "MagCmp" -> MagCmpImpl(v[1], v[2])
      [] f = "FLt" -> FLtImpl(v[1], v[2])
      [] f = "Powi" -> PowiImpl(v[1], v[2])
      [] f = "Scaled10" -> Scaled10Impl(v[1], v[2])
      [] f = "Cmp10" -> Cmp10Impl(v[1], v[2])
      [] f = "TrueExp10" -> TrueExp10Impl(v[1])
      [] f = "Log10Floor" -> Log10FloorImpl(v[1])
      [] f = "DecDigits" -> DecDigitsImpl(v[1])
      [] f = "BPow10" -> BPow10Impl(v[1])
      [] f = "NearestF64" -> NearestF64Impl(v[1], v[2], v[3])
      [] f = "FloorScaled" -> FloorScaledImpl(v[1], v[2], v[3])
      [] f = "DropDigits" -> DropDigitsImpl(v[1], v[2])
      [] f = "Shortest" -> ShortestImpl(v[1])
      [] f = "Positional" -> PositionalImpl(v[1], v[2])
      [] f = "ToText" -> ToTextImpl(v[1])
      [] f = "NearestMultiple" -> NearestMultipleImpl(v[1], v[2])
      [] f = "RoundedExactly" -> RoundedExactlyImpl(v[1], v[2])
      [] f = "AbsDiff" -> AbsDiffImpl(v[1], v[2], v[3])
      [] f = "NoFarther" -> NoFartherImpl(v[1], v[2], v[3])
      [] f = "BDivStep" -> BDivStepImpl(v[1], v[2], v[3], v[4], v[5])
      [] f = "BPowStep" -> BPowStepImpl(v[1])
      [] f = "PowiStep" -> PowiStepImpl(v[1])
      [] f = "DropMore" -> DropMoreImpl(v[1], v[2])
      [] f = "BPowSmall" -> BPowSmallImpl(v[1], v[2])
      [] f = "OffByOne" -> OffByOneImpl(v[1], v[2])
      [] f = "RoundAt" -> RoundAtImpl(v[1], v[2])

VARIABLES
  handle,   \* the F64Display of the caller, or NoHandle
  op,       \* the function the caller ran last
  arg,      \* its arguments: the f64 and the precision or significant figures
  panic,    \* the message of the panic that ended it, or NoPanic
  ret,      \* what to_sig_figs or ten_power_leq returned in it
  out,      \* the text it wrote to the formatter's sink
  stdout,   \* the lines it printed to standard output
  calls,    \* the calls of to_sig_figs and ten_power_leq made in it
  prev      \* the call of to_sig_figs this one follows up, or NoPrev

vars == <<handle, op, arg, panic, ret, out, stdout, calls, prev>>

Init ==
  /\ handle = NoHandle
  /\ op = "init"
  /\ arg = [x |-> NaN, n |-> 0]
  /\ panic = NoPanic
  /\ ret = NoRet
  /\ out = <<>>
  /\ stdout = <<>>
  /\ calls = <<>>
  /\ prev = NoPrev

Effects(r) ==
  /\ panic' = r.panic
  /\ ret' = r.ret
  /\ out' = r.out
  /\ stdout' = r.stdout
  /\ calls' = r.calls

\* a caller of the public interface asks for a handle: x.to_precision(p)
ToPrecision ==
  /\ op = "init"
  /\ \E x \in Inputs, p \in Precisions :
       LET r == to_precision(x, p)
       IN  /\ op' = "to_precision"
           /\ arg' = [x |-> x, n |-> p]
           /\ handle' = r.handle
           /\ Effects(Ran(r.panic, NoRet, <<>>, <<>>, <<>>))
           /\ prev' = NoPrev

\* the caller renders its handle into an empty sink: format!("{}", handle)
Fmt ==
  /\ handle.some
  /\ op' = "fmt"
  /\ arg' = [x |-> handle.x, n |-> handle.p]
  /\ Effects(fmt(handle))
  /\ prev' = NoPrev
  /\ UNCHANGED handle

\* a unit test calls to_sig_figs(x, sf)
CallToSigFigs ==
  /\ op = "init"
  /\ \E x \in FiniteInputs, sf \in SigFigs :
       /\ op' = "to_sig_figs"
       /\ arg' = [x |-> x, n |-> sf]
       /\ Effects(to_sig_figs_run(x, sf))
       /\ prev' = NoPrev
  /\ UNCHANGED handle

\* the result of to_sig_figs(x, sf) is rounded again to the same sf
RoundAgain ==
  /\ op = "to_sig_figs"
  /\ prev = NoPrev
  /\ panic = NoPanic
  /\ ret.f.k = "fin"
  /\ op' = "to_sig_figs"
  /\ arg' = [x |-> ret.f, n |-> arg.n]
  /\ Effects(to_sig_figs_run(ret.f, arg.n))
  /\ prev' = [kind |-> "again", x |-> arg.x, n |-> arg.n, ret |-> ret.f]
  /\ UNCHANGED handle

\* the x of to_sig_figs(x, sf) is rounded to more significant figures
RoundFiner ==
  /\ op = "to_sig_figs"
  /\ prev = NoPrev
  /\ panic = NoPanic
  /\ \E sf2 \in SigFigs :
       /\ sf2 > arg.n
       /\ op' = "to_sig_figs"
       /\ arg' = [x |-> arg.x, n |-> sf2]
       /\ Effects(to_sig_figs_run(arg.x, sf2))
       /\ prev' = [kind |-> "finer", x |-> arg.x, n |-> arg.n, ret |-> ret.f]
  /\ UNCHANGED handle

\* a unit test calls ten_power_leq(x)
CallTenPowerLeq ==
  /\ op = "init"
  /\ \E x \in FiniteInputs \cup {Zero(0), Zero(1)} :
       /\ op' = "ten_power_leq"
       /\ arg' = [x |-> x, n |-> 0]
       /\ Effects(ten_power_leq_run(x))
       /\ prev' = NoPrev
  /\ UNCHANGED handle

Next ==
  \/ ToPrecision
  \/ Fmt
  \/ CallToSigFigs
  \/ RoundAgain
  \/ RoundFiner
  \/ CallTenPowerLeq

Spec == Init /\ [][Next]_vars

EndsWith(s, t) ==
  Len(s) >= Len(t) /\ SubSeq(s, Len(s) - Len(t) + 1, Len(s)) = t

Abs(n) == IF n < 0 THEN -n ELSE n

(***************************************************************************)
(* Properties                                                              *)
(***************************************************************************)

\* C1: to_sig_figs(x, sf), for a finite nonzero x, returns x rounded to sf
\* significant decimal digits: the multiple of 10^(e - sf + 1) nearest to x,
\* e being the order of magnitude of |x|, a tie taken away from zero (so an x
\* of at most sf digits comes back unchanged).
C1_RoundsToSigFigs ==
  (op = "to_sig_figs" /\ panic = NoPanic)
    => ret.kind = "f64" /\ ret.f = RoundedExactly(arg.x, arg.n)

\* C2: a negative finite x renders as one '-' followed by the text of
\* to_sig_figs(|x|, p); the text holds exactly one minus sign.
C2_NegativeRendersOneMinus ==
  (op = "fmt" /\ arg.x.k = "fin" /\ arg.x.s = 1)
    => /\ panic = NoPanic
       /\ out = Minus \o ToText(to_sig_figs(FAbs(arg.x), arg.n))
       /\ Cardinality({i \in 1..Len(out) : <<out[i]>> = Minus}) = 1

\* C3: the special values render as fixed text whatever the precision: NaN as
\* "NaN", either zero as "0", +infinity as the infinity sign and -infinity as
\* '-' and the infinity sign.
C3_SpecialValuesText ==
  op = "fmt"
    => /\ IsNan(arg.x) => out = <<"N", "a", "N">>
       /\ arg.x.k = "zero" => out = <<"0">>
       /\ arg.x = Inf(0) => out = InfinitySign
       /\ arg.x = Inf(1) => out = <<"-">> \o InfinitySign

C3_Witness ==
  /\ op = "fmt"
  /\ arg.x = Inf(1)
  /\ arg.n = 21
  /\ out = <<"-", "U+221E">>

\* C4: to_precision(x, p) returns a handle of x and p exactly when
\* 1 <= p <= 21, whatever x is; for any other p it panics and returns none.
C4_HandleIffPrecisionInRange ==
  op = "to_precision"
    => IF 1 <= arg.n /\ arg.n <= 21
       THEN panic = NoPanic /\ handle = [some |-> TRUE, x |-> arg.x, p |-> arg.n]
       ELSE panic = PrecisionPanic /\ handle = NoHandle

C4_Witness ==
  /\ op = "to_precision"
  /\ arg.n = 22
  /\ IsNan(arg.x)
  /\ panic = PrecisionPanic
  /\ ~handle.some

\* C5: ten_power_leq(x), for a finite nonzero x, returns the e with
\* 10^e <= |x| < 10^(e+1), also when the logarithm's estimate is off by one
\* in either direction.
C5_ExponentBrackets ==
  (op = "ten_power_leq" /\ panic = NoPanic)
    => ret.kind = "i32" /\ ret.i = TrueExp10(arg.x)

\* C6: rounding is idempotent: to_sig_figs(to_sig_figs(x, sf), sf) equals
\* to_sig_figs(x, sf).
C6_Idempotent ==
  prev.kind = "again"
    => panic = NoPanic /\ ret.kind = "f64" /\ FEq(ret.f, prev.ret)

\* C7: for sf1 <= sf2 the result at sf2 is no farther from x than the result
\* at sf1: |to_sig_figs(x, sf2) - x| <= |to_sig_figs(x, sf1) - x|.
C7_FinerIsNoFarther ==
  prev.kind = "finer"
    => panic = NoPanic /\ NoFarther(ret.f, prev.ret, arg.x)

\* C8: rendering a handle writes to the sink only, and the rounding is a
\* pure function: neither prints anything to standard output.
C8_NoOutputBesidesSink ==
  op \in {"fmt", "to_sig_figs"} => stdout = <<>>

\* C9: fmt filters NaN, zero and the infinities out before it rounds:
\* to_sig_figs is never called with zero, NaN or an infinity, ten_power_leq
\* never with zero, and its nonzero assertion never fails under fmt.
C9_RounderSeesFiniteNonzero ==
  op = "fmt"
    => /\ \A i \in 1..Len(calls) :
            /\ calls[i].fn = "to_sig_figs" => calls[i].x.k = "fin"
            /\ calls[i].fn = "ten_power_leq" => calls[i].x.k # "zero"
       /\ panic # ZeroPanic

C9_Witness ==
  /\ op = "fmt"
  /\ arg.x = Zero(1)
  /\ calls = <<>>
  /\ panic = NoPanic
  /\ out = <<"0">>

\* C10: for every finite nonzero x and every p in 1..21 the scale factor
\* 10^|e - p + 1| is finite and so are the intermediate values: the text
\* rendered for x is never that of NaN or of an infinity.
C10_FiniteStaysFinite ==
  (op = "fmt" /\ arg.x.k = "fin")
    => /\ IsFinite(Powi(Ten, Abs(ten_power_leq(arg.x) - arg.n + 1)))
       /\ ret.kind = "f64" /\ IsFinite(ret.f)
       /\ ~EndsWith(out, <<"N", "a", "N">>)
       /\ ~EndsWith(out, <<"i", "n", "f">>)
       /\ ~EndsWith(out, InfinitySign)
====
